---------------------------- MODULE Spec2Model ----------------------------
(***************************************************************************)
(* A model of configmanager/meta.py: typed dataclass sections bound to an  *)
(* INI parser.  Python values, the type annotations of the fields, the     *)
(* section classes, the required-field check, the string conversions, the  *)
(* schema preparation done by config_dataclass, and ConfigBase.load/save   *)
(* against the configparser state they drive.                              *)
(***************************************************************************)
EXTENDS Integers, Sequences, FiniteSets, TLC

(***************************************************************************)
(* Bounds of the model.                                                    *)
(***************************************************************************)
\* integers held by int fields range over -MaxInt .. MaxInt
MaxInt == 12
\* how many keys outside the schema a raw mapping may carry
MaxUnknown == 2
\* how many config classes are declared in one run
MaxDecl == 2
\* how many paths a sequence given to load may hold
MaxPaths == 2

(***************************************************************************)
(* Python values.  A str is the sequence of its characters; every value    *)
(* has the same three fields so that any two of them can be compared.      *)
(***************************************************************************)
StrV(chars) == [t |-> "str", n |-> 0, s |-> chars]
IntV(k) == [t |-> "int", n |-> k, s |-> << >>]
BoolV(b) == [t |-> "bool", n |-> IF b THEN 1 ELSE 0, s |-> << >>]
None == [t |-> "NoneType", n |-> 0, s |-> << >>]

IsNumber(v) == v.t \in {"int", "bool"}

\* Python's ==, which the "in" of line 121 applies: bool is an int (True == 1),
\* a str equals only an equal str.
PyEq(a, b) ==
    IF IsNumber(a) /\ IsNumber(b) THEN a.n = b.n
    ELSE a.t = b.t /\ a.s = b.s

Digits == <<"0", "1", "2", "3", "4", "5", "6", "7", "8", "9">>

IsDigit(c) == \E d \in 1..10 : Digits[d] = c

DigitValue(c) == (CHOOSE d \in 1..10 : Digits[d] = c) - 1

RECURSIVE NatToChars(_)
NatToChars(k) ==
    IF k < 10 THEN <<Digits[k + 1]>>
    ELSE NatToChars(k \div 10) \o <<Digits[(k % 10) + 1]>>

\* str(value), as line 151 applies it to every field value
PyStr(v) ==
    CASE v.t = "str" -> v
      [] v.t = "int" -> StrV(IF v.n < 0 THEN <<"-">> \o NatToChars(-v.n)
                                     ELSE NatToChars(v.n))
      [] v.t = "bool" -> StrV(IF v.n = 1 THEN <<"T", "r", "u", "e">>
                                        ELSE <<"F", "a", "l", "s", "e">>)
      [] OTHER -> StrV(<<"N", "o", "n", "e">>)

RECURSIVE StripLeft(_)
StripLeft(cs) ==
    IF cs # << >> /\ Head(cs) = " " THEN StripLeft(Tail(cs)) ELSE cs

RECURSIVE StripRight(_)
StripRight(cs) ==
    IF cs # << >> /\ cs[Len(cs)] = " "
    THEN StripRight(SubSeq(cs, 1, Len(cs) - 1)) ELSE cs

RECURSIVE DigitsToNat(_)
DigitsToNat(cs) ==
    IF cs = << >> THEN 0
    ELSE 10 * DigitsToNat(SubSeq(cs, 1, Len(cs) - 1)) + DigitValue(cs[Len(cs)])

\* Results of a call: tag "ok" with a value, or the exception class with the
\* names its message lists.
Ok(v) == [tag |-> "ok", val |-> v, names |-> {}]
Raise(exc, nameset) == [tag |-> exc, val |-> None, names |-> nameset]

\* int(x): blanks around the literal are dropped, a sign may lead, the rest
\* is one or more decimal digits; anything else is a ValueError.
PyInt(v) ==
    IF IsNumber(v) THEN Ok(IntV(v.n))
    ELSE IF v.t # "str" THEN Raise("TypeError", {})
    ELSE LET body == StripRight(StripLeft(v.s))
             signed == body # << >> /\ Head(body) \in {"-", "+"}
             digs == IF signed THEN Tail(body) ELSE body
         IN  IF digs # << >> /\ \A i \in 1..Len(digs) : IsDigit(digs[i])
             THEN Ok(IntV(IF signed /\ Head(body) = "-"
                         THEN -DigitsToNat(digs) ELSE DigitsToNat(digs)))
             ELSE Raise("ValueError", {})

(***************************************************************************)
(* Type annotations, as typing.get_origin and typing.get_args see them.    *)
(***************************************************************************)
Plain(name) == [origin |-> "None", args |-> {}, name |-> name]
UnionOf(members) == [origin |-> "Union", args |-> members, name |-> "Union"]
Optional(name) == UnionOf({name, "NoneType"})

is_optional_type(tp) == tp.origin = "Union" /\ "NoneType" \in tp.args


(***************************************************************************)
(* The section classes of the model: dataclass subclasses of               *)
(* ConfigSectionBase.  Every field is declared with a default, None for a  *)
(* field the user must supply, which is the declaration style the mixin's  *)
(* docstring describes (lines 53-57).                                      *)
(***************************************************************************)
AUTO_NAME == "<AUTO_NAME>"

Field(name, tp, default) == [name |-> name, type |-> tp, default |-> default]

SectionClasses == {"Server", "Basic", "Opt"}

\* dataclass_fields(cls), in declaration order
dataclass_fields(cls) ==
    CASE cls = "Server" ->
           << Field("host", Plain("str"), None),
              Field("port", Plain("int"), None),
              Field("debug", Optional("bool"), None) >>
      [] cls = "Basic" ->
           << Field("name", Plain("str"), StrV(<<"d">>)),
              Field("count", Plain("int"), IntV(0)),
              Field("flag", Plain("bool"), BoolV(FALSE)) >>
      [] cls = "Opt" ->
           << Field("x", Optional("int"), None),
              Field("on", Plain("bool"), BoolV(FALSE)),
              Field("mode", UnionOf({"int", "str"}), IntV(0)) >>

\* the section_name each class body declares: a fixed string, or AUTO_NAME
\* inherited from ConfigSectionAutoNamed
DeclaredSectionName(cls) == IF cls = "Server" THEN "server" ELSE AUTO_NAME

Range(seq) == {seq[i] : i \in 1..Len(seq)}

FieldNames(fields) == {f.name : f \in Range(fields)}

VARIABLES
    section_name,   \* the class attribute section_name of every section class
    declared,       \* the config_dataclass calls so far: declaration and outcome
    call,           \* the last call on a section class or instance, and its result
    parser,         \* self._config_parser: section name -> (key -> str)
    config,         \* the loaded Config Instance, or NoConfig
    config_path,    \* self._config_path of the loaded instance
    files,          \* the file system: path -> the sections written there
    last            \* the last load or save call, and its result

vars == <<section_name, declared, call, parser, config, config_path, files, last>>

IsNone(v) == "t" \in DOMAIN v /\ v.t = "NoneType"

(***************************************************************************)
(* CheckNoneNonOptionalFieldsMixin.__post_init__: the loop over the fields *)
(* in declaration order raises at the first None held by a field whose     *)
(* type is not optional.                                                   *)
(***************************************************************************)
RECURSIVE CheckNoneFrom(_, _, _)
CheckNoneFrom(fields, vals, i) ==
    IF i > Len(fields) THEN Ok(None)
    ELSE IF IsNone(vals[fields[i].name]) /\ ~is_optional_type(fields[i].type)
         THEN Raise("TypeError", {fields[i].name})
         ELSE CheckNoneFrom(fields, vals, i + 1)

\* a checker that collects every missing field before raising
CheckNone_Batch(fields, vals) ==
    LET missing == {f.name : f \in {g \in Range(fields) :
                        IsNone(vals[g.name]) /\ ~is_optional_type(g.type)}}
    IN  IF missing # {} THEN Raise("TypeError", missing) ELSE Ok(None)

\* a checker that tests the truth of the value instead of "is None"
CheckNone_Falsy(fields, vals) ==
    LET falsy(v) == IsNone(v) \/ (v.n = 0 /\ v.s = << >>)
        bad == {i \in 1..Len(fields) :
                   falsy(vals[fields[i].name]) /\ ~is_optional_type(fields[i].type)}
    IN  IF bad # {}
        THEN Raise("TypeError", {fields[CHOOSE i \in bad : \A j \in bad : i <= j].name})
        ELSE Ok(None)

CheckNoneNonOptionalFields(fields, vals) == CheckNoneFrom(fields, vals, 1)

\* the dataclass __init__: a field not passed takes its declared default
InitFields(fields, kwargs) ==
    [n \in FieldNames(fields) |->
        IF n \in DOMAIN kwargs THEN kwargs[n]
        ELSE (CHOOSE f \in Range(fields) : f.name = n).default]

\* ConfigSectionBase.__post_init__: the assertion on section_name, then the
\* mixin's check
SectionPostInit(cls, vals) ==
    IF section_name[cls] = AUTO_NAME THEN Raise("AssertionError", {cls})
    ELSE CheckNoneNonOptionalFields(dataclass_fields(cls), vals)

Instance(cls, vals) == [cls |-> cls, vals |-> vals]

\* cls(**kwargs) for a section class
NewSection(cls, kwargs) ==
    LET vals == InitFields(dataclass_fields(cls), kwargs)
        chk == SectionPostInit(cls, vals)
    IN  IF chk.tag = "ok" THEN Ok(Instance(cls, vals)) ELSE chk

(***************************************************************************)
(* convert_field_types_from_strings                                        *)
(***************************************************************************)
\* the tuple of line 121
TruthyTokens ==
    { StrV(<<"1">>), IntV(1), StrV(<<"t", "r", "u", "e">>),
      StrV(<<"T", "r", "u", "e">>), StrV(<<"T", "R", "U", "E">>) }

BoolFromRaw(v) == BoolV(\E tok \in TruthyTokens : PyEq(v, tok))

\* field.type(value) of line 123: str and int are constructors, a typing.Union
\* cannot be instantiated
CallType(tp, v) ==
    IF tp.origin = "Union" THEN Raise("TypeError", {})
    ELSE CASE tp.name = "str" -> Ok(PyStr(v))
           [] tp.name = "int" -> PyInt(v)
           [] OTHER -> Raise("TypeError", {})

EmptyMap == [k \in {} |-> None]

\* the loop of lines 116-124: the first conversion that raises ends it
RECURSIVE ConvertFrom(_, _, _, _)
ConvertFrom(fields, source, i, acc) ==
    IF i > Len(fields) THEN Ok(acc)
    ELSE LET f == fields[i] IN
         IF f.name \notin DOMAIN source
         THEN ConvertFrom(fields, source, i + 1, acc)
         ELSE LET r == IF f.type = Plain("bool")
                       THEN Ok(BoolFromRaw(source[f.name]))
                       ELSE CallType(f.type, source[f.name])
              IN  IF r.tag # "ok" THEN r
                  ELSE ConvertFrom(fields, source, i + 1, acc @@ (f.name :> r.val))

\* a conversion that reports the unknown keys only after converting
convert_ConvertFirst(cls, source) ==
    LET fields == dataclass_fields(cls)
        unknown == DOMAIN source \ FieldNames(fields)
        r == ConvertFrom(fields, source, 1, EmptyMap)
    IN  IF r.tag # "ok" THEN r
        ELSE IF unknown # {} THEN Raise("KeyError", unknown) ELSE r

convert_field_types_from_strings(cls, source) ==
    LET fields == dataclass_fields(cls)
        unknown == DOMAIN source \ FieldNames(fields)
    IN  IF unknown # {} THEN Raise("KeyError", unknown)
        ELSE ConvertFrom(fields, source, 1, EmptyMap)

\* a SectionProxy read at once: its name and its items
Proxy(name, items) == [name |-> name, items |-> items]

from_config_section(cls, section) ==
    IF section_name[cls] # section.name THEN Raise("ValueError", {section.name})
    ELSE LET conv == convert_field_types_from_strings(cls, section.items)
         IN  IF conv.tag # "ok" THEN conv ELSE NewSection(cls, conv.val)

(***************************************************************************)
(* The configparser state the code drives: section name -> (key -> str).   *)
(***************************************************************************)
\* SectionProxy.__setitem__ -> RawConfigParser.set: a section the parser does
\* not have is a NoSectionError
ParserSet(p, section, key, value) ==
    IF section \notin DOMAIN p
    THEN [ret |-> Raise("NoSectionError", {section}), parser |-> p]
    ELSE [ret |-> Ok(None),
          parser |-> [p EXCEPT ![section] =
                        [k \in DOMAIN p[section] \cup {key} |->
                            IF k = key THEN value ELSE p[section][k]]]]

\* the loop of lines 150-151 over dataclass_asdict(self)
RECURSIVE WriteFieldsFrom(_, _, _, _, _)
WriteFieldsFrom(fields, vals, name, p, i) ==
    IF i > Len(fields) THEN [ret |-> Ok(None), parser |-> p]
    ELSE LET w == ParserSet(p, name, fields[i].name, PyStr(vals[fields[i].name]))
         IN  IF w.ret.tag # "ok" THEN w
             ELSE WriteFieldsFrom(fields, vals, name, w.parser, i + 1)

\* to_config_section: the proxy returned is a view of the parser's section
\* named section_name
to_config_section(inst, p) ==
    LET name == section_name[inst.cls]
        w == WriteFieldsFrom(dataclass_fields(inst.cls), inst.vals, name, p, 1)
    IN  IF w.ret.tag # "ok" THEN w
        ELSE [ret |-> Ok(name), parser |-> w.parser]

(***************************************************************************)
(* config_dataclass: the decorator that prepares a ConfigBase subclass.    *)
(* A declaration is the sequence of the class's fields, each a name and a  *)
(* type: a section class, or "int" for a type that is no section class.    *)
(***************************************************************************)
ConfigField(name, tp) == [name |-> name, type |-> tp]

RECURSIVE StampFrom(_, _, _)
StampFrom(decl, names, i) ==
    IF i > Len(decl) THEN names
    ELSE StampFrom(decl,
                   IF names[decl[i].type] = AUTO_NAME
                   THEN [names EXCEPT ![decl[i].type] = decl[i].name]
                   ELSE names,
                   i + 1)

\* a decorator that reports only one of the mismatching fields
config_dataclass_FirstMismatch(decl, names) ==
    LET wrong == {f.name : f \in {g \in Range(decl) : g.type \notin SectionClasses}}
        bad == {i \in 1..Len(decl) :
                   /\ decl[i].type \in SectionClasses
                   /\ names[decl[i].type] # AUTO_NAME
                   /\ names[decl[i].type] # decl[i].name}
    IN  IF wrong # {} THEN [ret |-> Raise("TypeError", wrong), names |-> names]
        ELSE IF bad # {}
        THEN [ret |-> Raise("ValueError",
                            {decl[CHOOSE i \in bad : \A j \in bad : i <= j].name}),
              names |-> names]
        ELSE [ret |-> Ok(None), names |-> StampFrom(decl, names, 1)]

\* the outcome and the section names the call leaves behind
config_dataclass(decl, names) ==
    LET wrong == {f.name : f \in {g \in Range(decl) : g.type \notin SectionClasses}}
        mismatched == {f.name : f \in {g \in Range(decl) :
                           /\ names[g.type] # AUTO_NAME
                           /\ names[g.type] # g.name}}
    IN  IF wrong # {} THEN [ret |-> Raise("TypeError", wrong), names |-> names]
        ELSE IF mismatched # {}
        THEN [ret |-> Raise("ValueError", mismatched), names |-> names]
        ELSE [ret |-> Ok(None), names |-> StampFrom(decl, names, 1)]

\* a class statement under @config_dataclass, for a declaration drawn from decls
Declare(decls) ==
    /\ Len(declared) < MaxDecl
    /\ call.op = "none" /\ last.op = "none"
    /\ \E decl \in decls :
         LET r == config_dataclass(decl, section_name) IN
         /\ declared' = Append(declared, [decl |-> decl, before |-> section_name,
                                          ret |-> r.ret, after |-> r.names])
         /\ section_name' = r.names
    /\ UNCHANGED <<call, parser, config, config_path, files, last>>

\* the config classes the decorator returned (line 191), by the position of
\* their class statement: the only ones a caller can name
Usable == {i \in 1..Len(declared) : declared[i].ret.tag = "ok"}

\* None where a path is expected
NonePath == "<None>"

NoCall == [op |-> "none"]
NoConfig == [decl |-> << >>, sections |-> EmptyMap,
             origin |-> [kind |-> "unloaded", path |-> NonePath]]

InitCommon ==
    /\ section_name = [c \in SectionClasses |-> DeclaredSectionName(c)]
    /\ declared = << >>
    /\ call = NoCall
    /\ parser = EmptyMap
    /\ config = NoConfig
    /\ config_path = NonePath
    /\ last = NoCall

(***************************************************************************)
(* Schema preparation on its own: every declaration of one or two fields.  *)
(***************************************************************************)
PrepFieldNames == {"server", "main", "aux"}
PrepTypes == {"Server", "Opt", "int"}

PrepDecls ==
    {<<ConfigField(n, tp)>> : n \in PrepFieldNames, tp \in PrepTypes}
    \cup {<<ConfigField(n1, t1), ConfigField(n2, t2)>> :
            n1 \in PrepFieldNames, n2 \in PrepFieldNames, t1 \in PrepTypes, t2 \in PrepTypes}

DeclarePrep == Declare({d \in PrepDecls : Cardinality(FieldNames(d)) = Len(d)})

InitPrep == InitCommon /\ files = EmptyMap

(***************************************************************************)
(* ConfigBase: construction.                                               *)
(***************************************************************************)
\* the dataclass fields of a config class: each typed by its section class
\* and declared with the default None
ConfigFields(decl) == [i \in 1..Len(decl) |-> Field(decl[i].name, Plain(decl[i].type), None)]

\* ConfigBase.__post_init__: the mixin's check, then the two private
\* attributes; line 230 sets _config_path to None whatever config_path is
ConfigPostInit(decl, vals, config_parser, path) ==
    [ret |-> CheckNoneNonOptionalFields(ConfigFields(decl), vals),
     config_parser |-> config_parser, config_path |-> NonePath]

\* cls(**sections, config_parser=..., config_path=...) for a config class
NewConfig(decl, kwargs, config_parser, path) ==
    LET vals == InitFields(ConfigFields(decl), kwargs)
        post == ConfigPostInit(decl, vals, config_parser, path)
    IN  [ret |-> IF post.ret.tag = "ok" THEN Ok(vals) ELSE post.ret,
         config_parser |-> post.config_parser, config_path |-> post.config_path]

(***************************************************************************)
(* Calls on section classes and instances, with inputs from small sets.    *)
(***************************************************************************)
\* the partial functions from keys to the values allowed for each key
RECURSIVE PartialMaps(_, _)
PartialMaps(keys, allowed) ==
    IF keys = {} THEN {EmptyMap}
    ELSE LET k == CHOOSE x \in keys : TRUE
             rest == PartialMaps(keys \ {k}, allowed)
         IN  rest \cup {m @@ (k :> v) : m \in rest, v \in allowed[k]}

TotalMaps(keys, allowed) == {m \in PartialMaps(keys, allowed) : DOMAIN m = keys}

FieldOf(cls, n) == CHOOSE f \in Range(dataclass_fields(cls)) : f.name = n

\* values of a type, the falsy ones among them
TypedValues(tp) ==
    IF tp.origin = "Union"
    THEN UNION {IF m = "int" THEN {IntV(0), IntV(MaxInt)}
                ELSE IF m = "bool" THEN {BoolV(FALSE), BoolV(TRUE)}
                ELSE IF m = "str" THEN {StrV(<<"h">>)}
                ELSE {None} : m \in tp.args}
    ELSE CASE tp.name = "str" -> {StrV(<< >>), StrV(<<"h">>)}
           [] tp.name = "int" -> {IntV(0), IntV(MaxInt)}
           [] OTHER -> {BoolV(FALSE), BoolV(TRUE)}

\* what a caller may pass for a field: a value of its type, or None
KwargValues(cls, n) == TypedValues(FieldOf(cls, n).type) \cup {None}

Construct ==
    /\ call.op = "none"
    /\ \E cls \in SectionClasses :
      \E kwargs \in PartialMaps(FieldNames(dataclass_fields(cls)),
                                [n \in FieldNames(dataclass_fields(cls)) |-> KwargValues(cls, n)]) :
        /\ call' = [op |-> "construct", cls |-> cls, names |-> section_name,
                    fields |-> dataclass_fields(cls), kwargs |-> kwargs,
                    vals |-> InitFields(dataclass_fields(cls), kwargs),
                    ret |-> NewSection(cls, kwargs)]
        /\ UNCHANGED <<section_name, declared, parser, config, config_path, files, last>>

\* a section instance to pass to a config class: every field at a value of
\* its type
SampleSection(cls) ==
    Instance(cls, [n \in FieldNames(dataclass_fields(cls)) |->
                      CHOOSE v \in TypedValues(FieldOf(cls, n).type) : ~IsNone(v)])

ConstructConfig ==
    /\ call.op = "none"
    /\ \E i \in Usable :
      \E kwargs \in PartialMaps(FieldNames(declared[i].decl),
                      [n \in FieldNames(declared[i].decl) |->
                          {None, SampleSection((CHOOSE f \in Range(declared[i].decl) :
                                                   f.name = n).type)}]) :
        /\ call' = [op |-> "construct", cls |-> "ConfigBase", index |-> i,
                    names |-> section_name,
                    fields |-> ConfigFields(declared[i].decl), kwargs |-> kwargs,
                    vals |-> InitFields(ConfigFields(declared[i].decl), kwargs),
                    ret |-> NewConfig(declared[i].decl, kwargs, EmptyMap, NonePath).ret]
        /\ UNCHANGED <<section_name, declared, parser, config, config_path, files, last>>

UnknownNames == <<"bogus", "extra", "junk", "more", "other">>
UnknownKeys == {UnknownNames[i] : i \in 1..MaxUnknown}

\* raw values for a boolean key: the tokens of line 121, other casings of
\* "true", and values that are none of them
BoolRaw ==
    TruthyTokens \cup
    { StrV(<<"t", "R", "u", "E">>), StrV(<<"T", "R", "u", "e">>), StrV(<<"0">>),
      StrV(<<"F", "a", "l", "s", "e">>), StrV(<<"y", "e", "s">>), StrV(<< >>), IntV(0) }

IntRaw ==
    { StrV(<<"0">>), StrV(<<"-", "3">>), StrV(<<" ", "7", " ">>), StrV(<<"8", "0">>),
      StrV(<<"a", "b", "c">>), StrV(<< >>) }

RawValues(cls, k) ==
    IF k \in UnknownKeys THEN {StrV(<<"1">>)}
    ELSE LET tp == FieldOf(cls, k).type IN
         IF tp = Plain("bool") THEN BoolRaw
         ELSE IF tp = Plain("int") THEN IntRaw
         ELSE IF tp = Plain("str") THEN {StrV(<<"h">>), StrV(<< >>)}
         ELSE {StrV(<<"1">>)}

Convert ==
    /\ call.op = "none"
    /\ \E cls \in SectionClasses :
      \E source \in PartialMaps(FieldNames(dataclass_fields(cls)) \cup UnknownKeys,
                                [k \in FieldNames(dataclass_fields(cls)) \cup UnknownKeys |->
                                    RawValues(cls, k)]) :
        /\ call' = [op |-> "convert", cls |-> cls, names |-> section_name,
                    source |-> source,
                    ret |-> convert_field_types_from_strings(cls, source)]
        /\ UNCHANGED <<section_name, declared, parser, config, config_path, files, last>>

\* instances to write and read back: every field at a value of its type,
\* an optional one possibly None
RoundTripValues(cls, n) ==
    LET tp == FieldOf(cls, n).type IN
    IF tp = Plain("int") THEN {IntV(k) : k \in -MaxInt..MaxInt}
    ELSE IF tp = Plain("str")
    THEN {StrV(<< >>), StrV(<<"h">>), StrV(<<" ", "7", " ">>), StrV(<<"N", "o", "n", "e">>)}
    ELSE TypedValues(tp)

\* the parser handed to to_config_section: a new one, one that has the
\* section, one whose section holds older values
RoundTripParsers(cls) ==
    LET name == section_name[cls] IN
    { EmptyMap, name :> EmptyMap,
      name :> [k \in FieldNames(dataclass_fields(cls)) |-> StrV(<<"o", "l", "d">>)] }

RoundTrip ==
    /\ call.op = "none"
    /\ \E cls \in {c \in SectionClasses : section_name[c] # AUTO_NAME} :
      \E vals \in TotalMaps(FieldNames(dataclass_fields(cls)),
                            [n \in FieldNames(dataclass_fields(cls)) |-> RoundTripValues(cls, n)]) :
        \E p \in RoundTripParsers(cls) :
          /\ NewSection(cls, vals).tag = "ok"
          /\ LET w == to_config_section(Instance(cls, vals), p) IN
             call' = [op |-> "roundtrip", cls |-> cls, names |-> section_name,
                      inst |-> Instance(cls, vals), parser |-> p,
                      ret |-> IF w.ret.tag # "ok" THEN w.ret
                              ELSE from_config_section(cls,
                                       Proxy(w.ret.val, w.parser[w.ret.val]))]
          /\ UNCHANGED <<section_name, declared, parser, config, config_path, files, last>>

\* the config classes of the test programs: the example schema of the
\* documentation, and one section class used by two fields
StdCfg == <<ConfigField("server", "Server"), ConfigField("opt", "Opt")>>
DupCfg == <<ConfigField("main", "Basic"), ConfigField("aux", "Basic")>>
ProgramDecls == {StdCfg, DupCfg}

\* each class statement of the program runs once
DeclareProgram == Declare({d \in ProgramDecls : \A i \in 1..Len(declared) : declared[i].decl # d})

\* the caller is done with the result of its call
Return ==
    /\ call.op # "none"
    /\ call' = NoCall
    /\ UNCHANGED <<section_name, declared, parser, config, config_path, files, last>>

NextPrep ==
    \/ DeclarePrep
    \/ ConstructConfig
    \/ Return

SpecPrep == InitPrep /\ [][NextPrep]_vars

InitSection == InitCommon /\ files = EmptyMap

NextSection ==
    \/ DeclareProgram
    \/ Construct
    \/ ConstructConfig
    \/ Convert
    \/ RoundTrip
    \/ Return

SpecSection == InitSection /\ [][NextSection]_vars

(***************************************************************************)
(* ConfigBase.load and ConfigBase.save.  A file is the sections the INI    *)
(* text holds; the parser reads it into, and writes it from, its state.    *)
(***************************************************************************)
\* parser.read(p): a key read later replaces the value read earlier
ParserRead(p, content) ==
    [s \in DOMAIN p \cup DOMAIN content |->
        IF s \in DOMAIN p /\ s \in DOMAIN content THEN content[s] @@ p[s]
        ELSE IF s \in DOMAIN content THEN content[s] ELSE p[s]]

\* the loop of lines 252-255
RECURSIVE ReadAllFrom(_, _, _, _)
ReadAllFrom(paths, fs, p, i) ==
    IF i > Len(paths) THEN [ret |-> Ok(None), parser |-> p]
    ELSE IF paths[i] \notin DOMAIN fs
         THEN [ret |-> Raise("FileNotFoundError", {paths[i]}), parser |-> p]
         ELSE ReadAllFrom(paths, fs, ParserRead(p, fs[paths[i]]), i + 1)

\* a loop that leaves out the sections the parser lacks
RECURSIVE BuildSections_SkipMissing(_, _, _, _)
BuildSections_SkipMissing(decl, p, i, acc) ==
    IF i > Len(decl) THEN Ok(acc)
    ELSE IF decl[i].name \notin DOMAIN p
    THEN BuildSections_SkipMissing(decl, p, i + 1, acc)
    ELSE LET r == from_config_section(decl[i].type, Proxy(decl[i].name, p[decl[i].name]))
         IN  IF r.tag # "ok" THEN r
             ELSE BuildSections_SkipMissing(decl, p, i + 1, acc @@ (decl[i].name :> r.val))

\* the loop of lines 257-263: a section the parser has is converted, one it
\* lacks is constructed with no arguments
RECURSIVE BuildSectionsFrom(_, _, _, _)
BuildSectionsFrom(decl, p, i, acc) ==
    IF i > Len(decl) THEN Ok(acc)
    ELSE LET f == decl[i]
             r == IF f.name \in DOMAIN p
                  THEN from_config_section(f.type, Proxy(f.name, p[f.name]))
                  ELSE NewSection(f.type, EmptyMap)
         IN  IF r.tag # "ok" THEN r
             ELSE BuildSectionsFrom(decl, p, i + 1, acc @@ (f.name :> r.val))

\* the argument of load: None, one path, a list or tuple of paths, or a
\* value of another type
PathArg(kind, paths) == [kind |-> kind, paths |-> paths]

\* load(path): the outcome, the parser built, the sections and the path the
\* new instance retains
load(decl, arg, fs) ==
    LET failed(r, p) == [ret |-> r, parser |-> p, sections |-> EmptyMap,
                         config_path |-> NonePath]
    IN
    IF arg.kind = "other" THEN failed(Raise("ValueError", {}), EmptyMap)
    ELSE LET rd == ReadAllFrom(arg.paths, fs, EmptyMap, 1)
             given == IF arg.kind = "single" THEN arg.paths[1] ELSE NonePath
         IN  IF rd.ret.tag # "ok" THEN failed(rd.ret, rd.parser)
             ELSE LET built == BuildSectionsFrom(decl, rd.parser, 1, EmptyMap) IN
                  IF built.tag # "ok" THEN failed(built, rd.parser)
                  ELSE LET new == NewConfig(decl, built.val, rd.parser, given) IN
                       IF new.ret.tag # "ok" THEN failed(new.ret, rd.parser)
                       ELSE [ret |-> Ok(None), parser |-> new.config_parser,
                             sections |-> new.ret.val, config_path |-> new.config_path]

\* RawConfigParser.__setitem__(key, proxy) of line 284: the section key is
\* emptied, then filled from the items of the proxy, which is a view of the
\* parser's own section of the proxy's name
ParserSetItem(p, key, proxyName) ==
    LET cleared == IF key \in DOMAIN p THEN [p EXCEPT ![key] = EmptyMap] ELSE p
        added == IF key \in DOMAIN cleared THEN cleared ELSE cleared @@ (key :> EmptyMap)
    IN  IF proxyName \notin DOMAIN added
        THEN [ret |-> Raise("NoSectionError", {proxyName}), parser |-> added]
        ELSE [ret |-> Ok(None),
              parser |-> [added EXCEPT ![key] = added[proxyName] @@ added[key]]]

\* the loop of lines 281-284
RECURSIVE SaveSectionsFrom(_, _, _, _)
SaveSectionsFrom(decl, sections, p, i) ==
    IF i > Len(decl) THEN [ret |-> Ok(None), parser |-> p]
    ELSE LET w == to_config_section(sections[decl[i].name], p) IN
         IF w.ret.tag # "ok" THEN w
         ELSE LET s == ParserSetItem(w.parser, decl[i].name, w.ret.val) IN
              IF s.ret.tag # "ok" THEN s
              ELSE SaveSectionsFrom(decl, sections, s.parser, i + 1)

\* save(path): the outcome, the state the parser is left in, the path
\* written and the files afterwards
save(cfg, retained, p, arg, fs) ==
    LET path == IF arg = NonePath THEN retained ELSE arg IN
    IF path = NonePath
    THEN [ret |-> Raise("ValueError", {}), parser |-> p, written |-> NonePath, files |-> fs]
    ELSE LET w == SaveSectionsFrom(cfg.decl, cfg.sections, p, 1) IN
         IF w.ret.tag # "ok"
         THEN [ret |-> w.ret, parser |-> w.parser, written |-> NonePath, files |-> fs]
         ELSE [ret |-> Ok(None), parser |-> w.parser, written |-> path,
               files |-> [q \in DOMAIN fs \cup {path} |->
                            IF q = path THEN w.parser ELSE fs[q]]]

KV(k, chars) == k :> StrV(chars)

\* the files of the test programs
InitialFiles ==
    ("a.ini" :> ("server" :> (KV("host", <<"h">>) @@ KV("port", <<"8", "0">>))))
    @@ ("b.ini" :> (("server" :> KV("port", <<"7">>))
                    @@ ("opt" :> KV("on", <<"T", "R", "U", "E">>))
                    @@ ("aux" :> KV("name", <<"h">>))))
    @@ ("c.ini" :> ("main" :> (KV("name", <<"h">>) @@ KV("count", <<"-", "3">>))))

\* the paths given to load; nothing is ever written to nope.ini
Paths == {"a.ini", "b.ini", "c.ini", "nope.ini"}

RECURSIVE PathSeqs(_)
PathSeqs(n) ==
    IF n = 0 THEN {<< >>}
    ELSE PathSeqs(n - 1) \cup {Append(s, q) : s \in {x \in PathSeqs(n - 1) : Len(x) = n - 1}, q \in Paths}

LoadArgs ==
    {PathArg("none", << >>), PathArg("other", << >>)}
    \cup {PathArg("single", <<q>>) : q \in Paths}
    \cup {PathArg("seq", s) : s \in PathSeqs(MaxPaths)}

Load ==
    /\ last.op = "none"
    /\ \E i \in Usable, arg \in LoadArgs :
      \E decl \in {declared[i].decl} : \E r \in {load(decl, arg, files)} :
      /\ last' = [op |-> "load", decl |-> decl, kind |-> arg.kind,
                  raw |-> r.parser, ret |-> r.ret, sections |-> r.sections]
      /\ IF r.ret.tag = "ok"
         THEN /\ config' = [decl |-> decl, sections |-> r.sections,
                             origin |-> [kind |-> arg.kind,
                                         path |-> IF arg.kind = "single"
                                                  THEN arg.paths[1] ELSE NonePath]]
              /\ parser' = r.parser
              /\ config_path' = r.config_path
         ELSE UNCHANGED <<config, parser, config_path>>
      /\ UNCHANGED <<section_name, declared, call, files>>

SaveArgs == {NonePath, "out.ini"}

Save ==
    /\ last.op = "none"
    /\ config.origin.kind # "unloaded"
    /\ \E arg \in SaveArgs :
         \E r \in {save(config, config_path, parser, arg, files)} :
         /\ last' = [op |-> "save", arg |-> arg, origin |-> config.origin,
                     decl |-> config.decl, sections |-> config.sections,
                     before |-> parser, ret |-> r.ret, written |-> r.written]
         /\ parser' = r.parser
         /\ files' = r.files
         /\ UNCHANGED <<section_name, declared, call, config, config_path>>

\* direct assignment to a field of a section of the loaded instance
Assign ==
    /\ last.op = "none"
    /\ config.origin.kind # "unloaded"
    /\ \E f \in Range(config.decl) :
         \E n \in {"port", "count"} \cap FieldNames(dataclass_fields(f.type)) :
           /\ config.sections[f.name].vals[n] # IntV(MaxInt)
           /\ config' = [config EXCEPT !.sections[f.name].vals[n] = IntV(MaxInt)]
    /\ UNCHANGED <<section_name, declared, call, parser, config_path, files, last>>

\* the caller is done with the outcome of its load or save
Done ==
    /\ last.op # "none"
    /\ last' = NoCall
    /\ UNCHANGED <<section_name, declared, call, parser, config, config_path, files>>

InitConfig == InitCommon /\ files = InitialFiles

NextConfig ==
    \/ DeclareProgram
    \/ Load
    \/ Save
    \/ Assign
    \/ Done

SpecConfig == InitConfig /\ [][NextConfig]_vars

(***************************************************************************)
(* Properties of construction and conversion, checked under SpecSection.   *)
(***************************************************************************)
\* a declared type tolerates the absent value when it is a union with None
ToleratesAbsence(tp) == "NoneType" \in tp.args

\* the fields of the last construction that are required and hold None
\* once every field is set
RequiredAbsent ==
    {f \in Range(call.fields) : IsNone(call.vals[f.name]) /\ ~ToleratesAbsence(f.type)}

FirstRequiredAbsent ==
    call.fields[CHOOSE i \in 1..Len(call.fields) :
                   /\ call.fields[i] \in RequiredAbsent
                   /\ \A j \in 1..(i - 1) : call.fields[j] \notin RequiredAbsent]

\* the section class constructed had no resolved section name at the call
UnresolvedAtCall == call.cls \in SectionClasses /\ call.names[call.cls] = AUTO_NAME

\* C3 as stated: constructing a Section Instance or a Config Instance fails
\* with MissingRequiredField (TypeError) if and only if some field whose
\* type is not optional holds None after all fields are set, and succeeds
\* otherwise, falsy values such as 0 and "" included.
C3_AsStated ==
    call.op = "construct" =>
        /\ call.ret.tag = "TypeError" <=> RequiredAbsent # {}
        /\ RequiredAbsent = {} => call.ret.tag = "ok"

\* C3 amended: the same equivalence for a Config Instance and for a Section
\* Instance whose section name is resolved; constructing an instance of a
\* section class whose name is still the auto-name sentinel fails the name
\* assertion instead, whatever its fields hold.
C3_RequiredFieldCheck ==
    call.op = "construct" =>
        IF UnresolvedAtCall THEN call.ret.tag = "AssertionError"
        ELSE /\ call.ret.tag = "TypeError" <=> RequiredAbsent # {}
             /\ RequiredAbsent = {} =>
                   /\ call.ret.tag = "ok"
                   /\ call.cls \in SectionClasses => call.ret.val.vals = call.vals

\* a construction that succeeds with its required fields at falsy values
\* and its optional field absent
C3_Witness ==
    /\ call.op = "construct"
    /\ call.cls = "Server"
    /\ call.vals["host"] = StrV(<< >>)
    /\ call.vals["port"] = IntV(0)
    /\ IsNone(call.vals["debug"])
    /\ call.ret.tag = "ok"

\* C10 as stated: with two or more required fields absent the
\* MissingRequiredField failure names all of them.
C10_AsStated ==
    (call.op = "construct" /\ Cardinality(RequiredAbsent) >= 2 /\ call.ret.tag = "TypeError")
        => call.ret.names = {f.name : f \in RequiredAbsent}

\* C10 amended: with two or more required fields absent the failure names
\* exactly one field, the first missing required field in declaration order.
C10_FirstMissingOnly ==
    (call.op = "construct" /\ Cardinality(RequiredAbsent) >= 2 /\ ~UnresolvedAtCall)
        => /\ call.ret.tag = "TypeError"
           /\ call.ret.names = {FirstRequiredAbsent.name}

\* a construction with host and port both absent, which names host alone
C10_Witness ==
    /\ call.op = "construct"
    /\ call.cls = "Server"
    /\ IsNone(call.vals["host"])
    /\ IsNone(call.vals["port"])
    /\ call.ret.tag = "TypeError"
    /\ call.ret.names = {"host"}

\* the keys of the last raw mapping that are no declared field name
UnknownInSource == DOMAIN call.source \ FieldNames(dataclass_fields(call.cls))

\* C4: convert_field_types_from_strings fails with UnknownFieldName
\* (KeyError) if and only if the raw mapping has a key that is no declared
\* field name; the failure lists exactly the unknown keys; and it is raised
\* whatever the values are, so that no conversion error replaces it.
C4_UnknownFieldName ==
    call.op = "convert" =>
        /\ call.ret.tag = "KeyError" <=> UnknownInSource # {}
        /\ UnknownInSource # {} => call.ret.names = UnknownInSource

\* two unknown keys beside a declared key whose value int() rejects
C4_Witness ==
    /\ call.op = "convert"
    /\ call.cls = "Basic"
    /\ "count" \in DOMAIN call.source
    /\ call.source["count"] = StrV(<<"a", "b", "c">>)
    /\ Cardinality(UnknownInSource) >= 2
    /\ call.ret.tag = "KeyError"
    /\ call.ret.names = UnknownInSource

UpperCase == <<"T", "R", "U", "E", "F", "N", "A", "L", "S", "Y">>
LowerCase == <<"t", "r", "u", "e", "f", "n", "a", "l", "s", "y">>

LowerChar(c) ==
    IF \E i \in 1..Len(UpperCase) : UpperCase[i] = c
    THEN LowerCase[CHOOSE i \in 1..Len(UpperCase) : UpperCase[i] = c]
    ELSE c

Lower(cs) == [i \in 1..Len(cs) |-> LowerChar(cs[i])]

\* the truthy raw values of the claim: "1", the integer 1, and "true" in
\* any casing
ClaimedTruthy(v) ==
    \/ v.t = "str" /\ v.s = <<"1">>
    \/ v.t = "int" /\ v.n = 1
    \/ v.t = "str" /\ Lower(v.s) = <<"t", "r", "u", "e">>

\* C9 as stated: a boolean-typed field present in the raw mapping converts
\* to True if and only if the raw value is "1", the integer 1, or a string
\* equal to "true" under case-insensitive comparison; any other raw value
\* converts to False.
C9_AsStated ==
    (call.op = "convert" /\ call.ret.tag = "ok") =>
        \A f \in Range(dataclass_fields(call.cls)) :
            (f.type = Plain("bool") /\ f.name \in DOMAIN call.source) =>
                call.ret.val[f.name] = BoolV(ClaimedTruthy(call.source[f.name]))

\* every field of the class is typed str, int or bool
AllScalar(cls) ==
    \A f \in Range(dataclass_fields(cls)) :
        f.type \in {Plain("str"), Plain("int"), Plain("bool")}

\* C6 as stated: for a Section Instance whose fields are all typed str, int
\* or bool, from_config_section(to_config_section(instance)) succeeds and
\* the instance it yields equals the original in every field.
C6_AsStated ==
    (call.op = "roundtrip" /\ AllScalar(call.cls)) =>
        /\ call.ret.tag = "ok"
        /\ call.ret.val.vals = call.inst.vals

\* the round trip given a parser that already has the section
C6_WithSection ==
    (call.op = "roundtrip" /\ AllScalar(call.cls)
        /\ call.names[call.cls] \in DOMAIN call.parser) =>
        /\ call.ret.tag = "ok"
        /\ call.ret.val.vals = call.inst.vals

(***************************************************************************)
(* Properties of schema preparation, checked under SpecPrep.               *)
(***************************************************************************)
Attempts == {declared[i] : i \in 1..Len(declared)}

\* C2 as stated: after any sequence of successful preparations, for every
\* prepared config class and every one of its section fields, the section
\* class of the field has a resolved name that is not the auto-name
\* sentinel and equals the field's name.
C2_AsStated ==
    \A a \in Attempts :
        a.ret.tag = "ok" =>
            \A f \in Range(a.decl) :
                /\ section_name[f.type] # AUTO_NAME
                /\ section_name[f.type] = f.name

\* the fields of an attempt whose section class had, when the decorator
\* ran, a fixed name other than the field's
Mismatching(a) ==
    {f.name : f \in {g \in Range(a.decl) :
        /\ g.type \in SectionClasses
        /\ a.before[g.type] # AUTO_NAME
        /\ a.before[g.type] # g.name}}

\* the last call constructed the config class of the i-th class statement
ConstructedClass(i) ==
    call.op = "construct" /\ call.cls = "ConfigBase" /\ call.index = i

\* C7 as stated: preparing a config class with a field whose section class
\* has a fixed name other than the field's always fails with
\* SchemaNameMismatch (ValueError) listing exactly those fields, and the
\* class is never available to load or construct.
C7_AsStated ==
    \A i \in 1..Len(declared) :
        LET a == declared[i] IN
        Mismatching(a) # {} =>
            /\ a.ret.tag = "ValueError"
            /\ a.ret.names = Mismatching(a)
            /\ ~ConstructedClass(i)

\* C7 amended: the same, for a config class whose fields are all typed by
\* section classes; with a field of another type the preparation fails
\* with SchemaFieldTypeError (TypeError) first.  Either way no section name
\* is stamped and the class is never available to load or construct.
C7_NameMismatch ==
    \A i \in 1..Len(declared) :
        LET a == declared[i] IN
        Mismatching(a) # {} =>
            /\ IF \A f \in Range(a.decl) : f.type \in SectionClasses
               THEN a.ret.tag = "ValueError" /\ a.ret.names = Mismatching(a)
               ELSE a.ret.tag = "TypeError"
            /\ a.after = a.before
            /\ ~ConstructedClass(i)

\* a preparation that fails naming two mismatching fields
C7_Witness ==
    \E a \in Attempts :
        /\ Cardinality(Mismatching(a)) = 2
        /\ a.ret.tag = "ValueError"
        /\ a.ret.names = Mismatching(a)

(***************************************************************************)
(* Properties of load and save, checked under SpecConfig.                  *)
(***************************************************************************)
\* C1 as stated: save() without a path writes to P if and only if load was
\* given exactly one explicit path P, and fails with NoConfigPathAvailable
\* (ValueError) after a load given no path or a sequence; save(Q) writes
\* to Q.
C1_AsStated ==
    last.op = "save" =>
        /\ (last.arg = NonePath /\ last.origin.kind = "single") =>
              /\ last.ret.tag # "ValueError"
              /\ last.ret.tag = "ok" => last.written = last.origin.path
        /\ (last.arg = NonePath /\ last.origin.kind # "single") =>
              last.ret.tag = "ValueError"
        /\ (last.arg # NonePath /\ last.ret.tag = "ok") => last.written = last.arg

\* C5 as stated: after a successful save, for every declared section field
\* the parser, and the file written, hold a section of that name that maps
\* every declared field of the section class to str() of the instance's
\* current value.
C5_AsStated ==
    (last.op = "save" /\ last.ret.tag = "ok") =>
        /\ files[last.written] = parser
        /\ \A f \in Range(config.decl) :
              /\ f.name \in DOMAIN parser
              /\ \A g \in Range(dataclass_fields(f.type)) :
                    /\ g.name \in DOMAIN parser[f.name]
                    /\ parser[f.name][g.name] = PyStr(config.sections[f.name].vals[g.name])

\* the last load read its files: its raw data are the merged sections
LoadReadRaw ==
    /\ last.op = "load"
    /\ last.kind # "other"
    /\ last.ret.tag # "FileNotFoundError"

\* C8 as stated: a section present in the raw data is built by
\* from_config_section, a missing one is constructed with no fields (and
\* load fails with MissingRequiredField exactly when that leaves a
\* required field absent); in no other case does load default a value, so
\* every field of a section present in the raw data comes from a raw key.
C8_AsStated ==
    (LoadReadRaw /\ last.ret.tag = "ok") =>
        \A f \in Range(last.decl) :
            f.name \in DOMAIN last.raw =>
                \A g \in Range(dataclass_fields(f.type)) :
                    g.name \in DOMAIN last.raw[f.name]

\* the section of field f cannot be constructed with no fields
MissingFails(f) ==
    /\ f.name \notin DOMAIN last.raw
    /\ \E g \in Range(dataclass_fields(f.type)) :
          IsNone(g.default) /\ ~ToleratesAbsence(g.type)

\* the raw section of field f is rejected by from_config_section
PresentFails(f) ==
    /\ f.name \in DOMAIN last.raw
    /\ from_config_section(f.type, Proxy(f.name, last.raw[f.name])).tag # "ok"

FirstFailing ==
    last.decl[CHOOSE i \in 1..Len(last.decl) :
                 /\ MissingFails(last.decl[i]) \/ PresentFails(last.decl[i])
                 /\ \A j \in 1..(i - 1) :
                       ~(MissingFails(last.decl[j]) \/ PresentFails(last.decl[j]))]

\* C8 amended: a section named as a declared field is built by
\* from_config_section, whose failure is load's failure; a missing one is
\* constructed with no fields, and load fails with MissingRequiredField
\* exactly when that leaves a required field absent.  A loaded field holds
\* the converted raw value when its section and its key are both in the
\* raw data, and its declared default otherwise: a key missing from a
\* section that is present is defaulted too.  Raw sections that no field
\* declares are ignored.
C8_LoadSections ==
    LoadReadRaw =>
        IF \E f \in Range(last.decl) : MissingFails(f) \/ PresentFails(f)
        THEN IF MissingFails(FirstFailing)
             THEN last.ret.tag = "TypeError"
             ELSE last.ret = from_config_section(FirstFailing.type,
                                Proxy(FirstFailing.name, last.raw[FirstFailing.name]))
        ELSE /\ last.ret.tag = "ok"
             /\ DOMAIN last.sections = FieldNames(last.decl)
             /\ \A f \in Range(last.decl) :
                   \A g \in Range(dataclass_fields(f.type)) :
                       last.sections[f.name].vals[g.name] =
                           IF f.name \in DOMAIN last.raw /\ g.name \in DOMAIN last.raw[f.name]
                           THEN convert_field_types_from_strings(
                                    f.type, last.raw[f.name]).val[g.name]
                           ELSE g.default

\* a load in which one section is missing and comes out at its defaults,
\* and one is present without the key of an optional field, which is
\* defaulted, beside a key that is converted
C8_Witness ==
    /\ LoadReadRaw
    /\ last.ret.tag = "ok"
    /\ last.decl = StdCfg
    /\ "opt" \notin DOMAIN last.raw
    /\ last.sections["opt"].vals["on"] = BoolV(FALSE)
    /\ "server" \in DOMAIN last.raw
    /\ "debug" \notin DOMAIN last.raw["server"]
    /\ IsNone(last.sections["server"].vals["debug"])
    /\ last.sections["server"].vals["port"] = IntV(80)

=============================================================================
